---- MODULE Spec2Model ----
(***************************************************************************)
(* Model of bin/generate_points.py: seed the generator, draw NUM_POINTS x 3 *)
(* uniform samples, scale them by MAX_COORDINATE, serialize them with       *)
(* np.savetxt(fmt='%.4f') and print a confirmation line.                    *)
(*                                                                          *)
(* Doubles are modelled exactly.  A sample of np.random.rand is K / 2^53    *)
(* with K a 53-bit integer built from a 27-bit and a 26-bit half; integers  *)
(* wider than TLC's are little-endian sequences of 13-bit limbs.            *)
(*                                                                          *)
(* The generator is a deterministic machine over StreamPeriod states whose  *)
(* output function (stream) is arbitrary; importing numpy leaves it in an   *)
(* arbitrary state (operating-system entropy), seeding puts it in the state *)
(* the seed selects.                                                        *)
(*                                                                          *)
(* The disk is the parent directory (writable, read-only or missing) and    *)
(* the file at FILE_PATH.  Opening an existing file for writing succeeds in *)
(* a read-only directory; creating one does not.  A row reaches the disk    *)
(* when it is written (savetxt's buffering is left out), or the write       *)
(* fails and the process ends with the rows written so far on disk.         *)
(*                                                                          *)
(* NUM_POINTS is 100000 in the script; here it ranges over 0..MaxPoints.    *)
(* The script may be run again on the same disk (Rerun).                    *)
(***************************************************************************)
EXTENDS Integers, Sequences, FiniteSets, TLC

\* ------------------------------------------------------------------ bounds
MaxPoints == 2
MaxRuns == 2
StreamPeriod == 4

\* ------------------------------------------------------- program constants
MAX_COORDINATE == 100000
SEED == 1701
FILE_PATH == "./data/points.txt"
Decimals == 4
MantissaBits == 53

\* -------------------------------------------------- wide integer arithmetic
LimbBits == 13
Limb == 2 ^ LimbBits

\* K = a * 2^26 + b as limbs (a: 27 bits, b: 26 bits).
Limbs(a, b) ==
  << b % Limb, b \div Limb, a % Limb, (a \div Limb) % Limb, a \div (Limb * Limb) >>

RECURSIVE MulCarry(_, _, _)
MulCarry(x, c, carry) ==
  IF x = << >>
  THEN IF carry = 0 THEN << >>
       ELSE << carry % Limb >> \o MulCarry(<< >>, c, carry \div Limb)
  ELSE LET p == Head(x) * c + carry
       IN  << p % Limb >> \o MulCarry(Tail(x), c, p \div Limb)

RECURSIVE Norm(_)
Norm(x) ==
  IF x # << >> /\ x[Len(x)] = 0 THEN Norm(SubSeq(x, 1, Len(x) - 1)) ELSE x

WidthOf(v) == CHOOSE k \in 0..LimbBits : v < 2 ^ k /\ (k = 0 \/ 2 ^ (k - 1) <= v)

BitLen(x) ==
  LET n == Norm(x)
  IN  IF n = << >> THEN 0 ELSE LimbBits * (Len(n) - 1) + WidthOf(n[Len(n)])

BitAt(x, i) ==
  LET w == i \div LimbBits + 1
  IN  IF w > Len(x) THEN 0 ELSE (x[w] \div (2 ^ (i % LimbBits))) % 2

Sticky(x, i) == \E j \in 0..(i - 1) : BitAt(x, j) = 1

Shr(x, s) ==
  LET w == s \div LimbBits
      t == s % LimbBits
  IN  [k \in 1..Len(x) |->
        (IF k + w <= Len(x) THEN x[k + w] \div (2 ^ t) ELSE 0)
        + (IF k + w + 1 <= Len(x)
           THEN (x[k + w + 1] % (2 ^ t)) * (2 ^ (LimbBits - t)) ELSE 0)]

RECURSIVE Inc(_)
Inc(x) ==
  IF x = << >> THEN << 1 >>
  ELSE IF Head(x) + 1 < Limb THEN << Head(x) + 1 >> \o Tail(x)
  ELSE << 0 >> \o Inc(Tail(x))

RoundsUp(x, s) == BitAt(x, s - 1) = 1 /\ (Sticky(x, s - 1) \/ BitAt(x, s) = 1)

\* x / 2^s rounded to the nearest integer, ties to even.
RoundHalfEven(x, s) ==
  IF s <= 0 THEN Norm(x)
  ELSE Norm(IF RoundsUp(x, s) THEN Inc(Shr(x, s)) ELSE Shr(x, s))

RECURSIVE ToInt(_)
ToInt(x) == IF x = << >> THEN 0 ELSE Head(x) + Limb * ToInt(Tail(x))

\* ----------------------------------------------------------------- doubles
\* A double is [m, e]: the value m * 2^e / 2^MantissaBits, m < 2^MantissaBits
\* unless rounding carried into the next binade.

\* np.random.rand: one sample in [0, 1) with 53-bit resolution.
random_sample(ab) == [m |-> Norm(Limbs(ab[1], ab[2])), e |-> 0]

\* The bits a product p has beyond a double's mantissa.
Excess(p) == IF BitLen(p) > MantissaBits THEN BitLen(p) - MantissaBits ELSE 0

\* double * integer, rounded to nearest-even as IEEE-754 multiplication does.
FMul(v, c) ==
  LET p == MulCarry(v.m, c, 0)
  IN  [m |-> RoundHalfEven(p, Excess(p)), e |-> v.e + Excess(p)]

\* ------------------------------------------------------------ '%.4f' text
Digit == << "0", "1", "2", "3", "4", "5", "6", "7", "8", "9" >>

RECURSIVE IntDigits(_)
IntDigits(n) ==
  IF n < 10 THEN << Digit[n + 1] >> ELSE IntDigits(n \div 10) \o << Digit[(n % 10) + 1] >>

RECURSIVE FracDigits(_, _)
FracDigits(n, width) ==
  IF width = 0 THEN << >>
  ELSE FracDigits(n \div 10, width - 1) \o << Digit[(n % 10) + 1] >>

\* The value in units of 10^-Decimals, rounded half-even on the exact binary
\* value as the C library's printf does.
Quantize(v) ==
  ToInt(RoundHalfEven(MulCarry(v.m, 10 ^ Decimals, 0), MantissaBits - v.e))

\* A bug: the fraction loses its leading zeros.
FormatUnpadded(v) ==
  LET t == Quantize(v)
  IN  IntDigits(t \div (10 ^ Decimals)) \o << "." >> \o IntDigits(t % (10 ^ Decimals))

FormatFixed(v) ==
  LET t == Quantize(v)
  IN  IntDigits(t \div (10 ^ Decimals)) \o << "." >> \o FracDigits(t % (10 ^ Decimals), Decimals)

\* ----------------------------------------------------------------- samples
\* Representative 53-bit samples (27-bit half, 26-bit half): the smallest
\* nonzero sample, a sample in the middle of the range, the largest sample.
Samples == { << 0, 1 >>, << 16556845, 51737031 >>, << 134217727, 67108863 >> }

\* The samples as doubles, tabulated.
Uniform == [ab \in Samples |-> random_sample(ab)]

SampleValues == { Uniform[ab] : ab \in Samples }

\* sample * MAX_COORDINATE, tabulated over the samples.
Times == [v \in SampleValues |-> FMul(v, MAX_COORDINATE)]

\* '%.4f' % coordinate, tabulated over the coordinates.
Text == [v \in { Times[u] : u \in SampleValues } |-> FormatFixed(v)]

NL == "\n"
SP == " "

\* savetxt's row format: delimiter.join([fmt] * ncol) % tuple(row) + newline.
FormatRow(r) ==
  Text[r[1]] \o << SP >> \o Text[r[2]] \o << SP >> \o Text[r[3]] \o << NL >>

\* ------------------------------------------------------------------ state
OldData == << "o", "l", "d", NL >>

NoError == "none"

VARIABLES
  num_points,   \* NUM_POINTS, bounded by MaxPoints
  stream,       \* the generator's output function: the sample yielded in each state
  dir,          \* parent directory of FILE_PATH: "writable", "readonly", "missing"
  file,         \* FILE_PATH on disk: [exists, data]
  pc,           \* next statement of the script
  rng,          \* global generator: [state, drawn], state a position of the period
  points,       \* the in-memory array, a sequence of rows of 3 doubles
  row,          \* savetxt's loop position
  fh,           \* savetxt's file handle is open
  stdout,       \* lines printed by this process
  exit_status,  \* -1 while running, then the process's exit status
  error,        \* the exception that ended the process
  runs,         \* processes started so far
  history       \* per finished process: [ok, data] as left on disk

vars == << num_points, stream, dir, file, pc, rng, points, row, fh, stdout,
           exit_status, error, runs, history >>

Confirmation == [count |-> num_points, text |-> "points are written to", path |-> FILE_PATH]

FreshProcess ==
  /\ pc = "seed"
  /\ rng \in [state : 0..(StreamPeriod - 1), drawn : {0}]
  /\ points = << >>
  /\ row = 0
  /\ fh = FALSE
  /\ stdout = << >>
  /\ exit_status = -1
  /\ error = NoError

Init ==
  /\ num_points \in 0..MaxPoints
  /\ stream \in [0..(StreamPeriod - 1) -> Samples]
  /\ dir \in {"writable", "readonly", "missing"}
  /\ file \in {[exists |-> FALSE, data |-> << >>], [exists |-> TRUE, data |-> OldData]}
  /\ dir = "missing" => ~file.exists
  /\ FreshProcess
  /\ runs = 1
  /\ history = << >>

\* A bug: the exception is caught and the script carries on to its last line.
RaiseSwallowed(e) ==
  /\ error' = e
  /\ exit_status' = -1
  /\ pc' = "print"
  /\ fh' = FALSE

\* An uncaught exception: traceback, exit status 1.
Raise(e) ==
  /\ error' = e
  /\ exit_status' = 1
  /\ pc' = "exited"
  /\ fh' = FALSE

\* The generator state a seed selects.
seed_state(s) == s % StreamPeriod

\* A bug: the generator is left as the import seeded it.
SeedSkipped ==
  /\ pc = "seed"
  /\ pc' = "rand"
  /\ UNCHANGED << num_points, stream, dir, file, rng, points, row, fh, stdout,
                  exit_status, error, runs, history >>

\* line 9: np.random.seed(1701)
Seed ==
  /\ pc = "seed"
  /\ rng' = [state |-> seed_state(SEED), drawn |-> 0]
  /\ pc' = "rand"
  /\ UNCHANGED << num_points, stream, dir, file, points, row, fh, stdout,
                  exit_status, error, runs, history >>

\* A bug: the draws fill the array column by column.
ReshapeColumnMajor(draws) ==
  [i \in 1..num_points |-> [j \in 1..3 |-> Uniform[draws[num_points * (j - 1) + i]]]]

\* rand(NUM_POINTS, 3) fills a C-ordered array from consecutive draws.
Reshape(draws) ==
  [i \in 1..num_points |-> [j \in 1..3 |-> Uniform[draws[3 * (i - 1) + j]]]]

Scale(arr) == [i \in 1..Len(arr) |-> [j \in 1..3 |-> Times[arr[i][j]]]]

\* The next n samples of the generator.
Drawn(n) == [k \in 1..n |-> stream[(rng.state + k - 1) % StreamPeriod]]

\* line 11: points = np.random.rand(NUM_POINTS, 3) * MAX_COORDINATE
Rand ==
  /\ pc = "rand"
  /\ \E samples \in {Reshape(Drawn(3 * num_points))} : points' = Scale(samples)
  /\ rng' = [state |-> (rng.state + 3 * num_points) % StreamPeriod,
             drawn |-> rng.drawn + 3 * num_points]
  /\ pc' = "savetxt"
  /\ UNCHANGED << num_points, stream, dir, file, row, fh, stdout, exit_status,
                  error, runs, history >>

\* A bug: mode 'a', which keeps what the file held.
OpenAppend(f) == [exists |-> TRUE, data |-> f.data]

\* A bug: the file is only created once there is a row to write.
OpenLazily(f) == IF num_points = 0 THEN f ELSE [exists |-> TRUE, data |-> << >>]

\* open(fname, 'wt') on a path that can be opened: the file exists and is empty.
OpenTruncate(f) == [exists |-> TRUE, data |-> << >>]

\* line 12, np.savetxt: open(fname, 'wt') creates or truncates the file.
SavetxtOpen ==
  /\ pc = "savetxt"
  /\ IF dir = "missing"
     THEN /\ Raise("FileNotFoundError")
          /\ history' = Append(history, [ok |-> FALSE, data |-> file.data])
          /\ UNCHANGED << file, row >>
     ELSE IF dir = "readonly" /\ ~file.exists
     THEN /\ Raise("PermissionError")
          /\ history' = Append(history, [ok |-> FALSE, data |-> file.data])
          /\ UNCHANGED << file, row >>
     ELSE /\ file' = OpenTruncate(file)
          /\ fh' = TRUE
          /\ row' = 1
          /\ pc' = "write"
          /\ UNCHANGED << exit_status, error, history >>
  /\ UNCHANGED << num_points, stream, dir, rng, points, stdout, runs >>

\* A bug: the rows are written last to first.
SavetxtWriteRowReversed ==
  /\ pc = "write"
  /\ row <= Len(points)
  /\ \/ /\ Raise("OSError")
        /\ history' = Append(history, [ok |-> FALSE, data |-> file.data])
        /\ UNCHANGED << file, row >>
     \/ /\ file' = [file EXCEPT !.data = @ \o FormatRow(points[Len(points) + 1 - row])]
        /\ row' = row + 1
        /\ UNCHANGED << pc, fh, exit_status, error, history >>
  /\ UNCHANGED << num_points, stream, dir, rng, points, stdout, runs >>

\* line 12, np.savetxt: for row in X: fh.write(format % tuple(row) + newline).
\* The write reaches the disk or fails (no space left), leaving the rows so far.
SavetxtWriteRow ==
  /\ pc = "write"
  /\ row <= Len(points)
  /\ \/ /\ Raise("OSError")
        /\ history' = Append(history, [ok |-> FALSE, data |-> file.data])
        /\ UNCHANGED << file, row >>
     \/ /\ file' = [file EXCEPT !.data = @ \o FormatRow(points[row])]
        /\ row' = row + 1
        /\ UNCHANGED << pc, fh, exit_status, error, history >>
  /\ UNCHANGED << num_points, stream, dir, rng, points, stdout, runs >>

\* A bug: a footer line follows the rows.
SavetxtCloseFooter ==
  /\ pc = "write"
  /\ row > Len(points)
  /\ file' = [file EXCEPT !.data = @ \o << "#", NL >>]
  /\ fh' = FALSE
  /\ pc' = "print"
  /\ UNCHANGED << num_points, stream, dir, rng, points, row, stdout,
                  exit_status, error, runs, history >>

\* line 12, np.savetxt: the loop is over, the handle is closed.
SavetxtClose ==
  /\ pc = "write"
  /\ row > Len(points)
  /\ fh' = FALSE
  /\ pc' = "print"
  /\ UNCHANGED << num_points, stream, dir, file, rng, points, row, stdout,
                  exit_status, error, runs, history >>

\* A bug: the confirmation is printed in place of the write.
PrintBeforeWrite ==
  /\ pc \in {"savetxt", "print"}
  /\ stdout' = Append(stdout, Confirmation)
  /\ pc' = "exited"
  /\ exit_status' = 0
  /\ history' = Append(history, [ok |-> TRUE, data |-> file.data])
  /\ UNCHANGED << num_points, stream, dir, file, rng, points, row, fh, error, runs >>

\* line 14: print(NUM_POINTS, "points are written to", FILE_PATH); the script ends.
PrintConfirmation ==
  /\ pc = "print"
  /\ stdout' = Append(stdout, Confirmation)
  /\ pc' = "exited"
  /\ exit_status' = 0
  /\ history' = Append(history, [ok |-> TRUE, data |-> file.data])
  /\ UNCHANGED << num_points, stream, dir, file, rng, points, row, fh, error, runs >>

\* The script is started again: a new process, the same disk.
Rerun ==
  /\ pc = "exited"
  /\ runs < MaxRuns
  /\ runs' = runs + 1
  /\ pc' = "seed"
  /\ rng' \in [state : 0..(StreamPeriod - 1), drawn : {0}]
  /\ points' = << >>
  /\ row' = 0
  /\ fh' = FALSE
  /\ stdout' = << >>
  /\ exit_status' = -1
  /\ error' = NoError
  /\ UNCHANGED << num_points, stream, dir, file, history >>

Step ==
  \/ Seed
  \/ Rand
  \/ SavetxtOpen
  \/ SavetxtWriteRow
  \/ SavetxtClose
  \/ PrintConfirmation

Next == Step \/ Rerun

Spec == Init /\ [][Next]_vars

\* The interpreter keeps executing a running script.
FairSpec == Spec /\ WF_vars(Step)

\* ------------------------------------------------- reading the file back
LineCount(data) == Cardinality({i \in 1..Len(data) : data[i] = NL})

Terminated(data) == data = << >> \/ data[Len(data)] = NL

FirstIndex(s, c) == CHOOSE i \in 1..Len(s) : s[i] = c /\ \A j \in 1..(i - 1) : s[j] # c

RECURSIVE Split(_, _)
Split(s, sep) ==
  IF \A i \in 1..Len(s) : s[i] # sep THEN << s >>
  ELSE LET i == FirstIndex(s, sep)
       IN  << SubSeq(s, 1, i - 1) >> \o Split(SubSeq(s, i + 1, Len(s)), sep)

\* The newline-terminated lines of the file, without their newline.
FileLines(data) ==
  LET p == Split(data, NL) IN SubSeq(p, 1, Len(p) - 1)

Fields(line) == Split(line, SP)

IsDigit(c) == \E d \in 1..10 : Digit[d] = c

DigitValue(c) == (CHOOSE d \in 1..10 : Digit[d] = c) - 1

\* digits, a point, exactly Decimals digits: no sign, no exponent.
IsFixed(f) ==
  /\ Len(f) >= Decimals + 2
  /\ f[Len(f) - Decimals] = "."
  /\ \A i \in 1..Len(f) : i # Len(f) - Decimals => IsDigit(f[i])

RECURSIVE DigitsValue(_)
DigitsValue(s) ==
  IF s = << >> THEN 0
  ELSE 10 * DigitsValue(SubSeq(s, 1, Len(s) - 1)) + DigitValue(s[Len(s)])

\* The value of a fixed-point field in units of 10^-Decimals.
ParseFixed(f) ==
  DigitsValue(SubSeq(f, 1, Len(f) - Decimals - 1)) * 10 ^ Decimals
    + DigitsValue(SubSeq(f, Len(f) - Decimals + 1, Len(f)))

RECURSIVE Serialize(_)
Serialize(arr) ==
  IF arr = << >> THEN << >> ELSE FormatRow(Head(arr)) \o Serialize(Tail(arr))

\* The k-th sample (from 0) of a generator seeded with SEED.
Draw(k) == stream[(seed_state(SEED) + k) % StreamPeriod]

Succeeded == pc = "exited" /\ exit_status = 0

CannotOpen == dir = "missing" \/ (dir = "readonly" /\ ~file.exists)

IOErrors == {"FileNotFoundError", "PermissionError", "OSError"}

\* ------------------------------------------------------------------ claims

\* C1. Determinism: all successful runs (same seed, count and scale, each from
\* a freshly started process) leave byte-identical files, whatever the file
\* held before each of them.
C1_Determinism ==
  \A i \in 1..Len(history) : \A j \in 1..Len(history) :
    history[i].ok /\ history[j].ok => history[i].data = history[j].data

\* Two successful runs of at least one point, the first of which found a
\* file with other contents at the path.
C1_Witness ==
  /\ Len(history) >= 2
  /\ history[1].ok /\ history[2].ok
  /\ num_points >= 1
  /\ dir = "readonly"

\* C2. Range invariant: after a successful run every coordinate parsed back
\* from the file satisfies 0 <= c < MAX_COORDINATE.
C2_RangeInvariant ==
  Succeeded =>
    \A l \in 1..Len(FileLines(file.data)) :
      \A k \in 1..Len(Fields(FileLines(file.data)[l])) :
        LET f == Fields(FileLines(file.data)[l])[k]
        IN  IsFixed(f) /\ 0 <= ParseFixed(f) /\ ParseFixed(f) < MAX_COORDINATE * 10 ^ Decimals

\* C3. Count invariant: after a successful run the file holds exactly
\* NUM_POINTS newline-terminated lines, each of them a point (three fields):
\* no header, no trailing metadata.
C3_CountInvariant ==
  Succeeded =>
    /\ LineCount(file.data) = num_points
    /\ Terminated(file.data)
    /\ Len(FileLines(file.data)) = num_points
    /\ \A l \in 1..Len(FileLines(file.data)) : Len(Fields(FileLines(file.data)[l])) = 3

C3_Witness ==
  /\ Succeeded
  /\ num_points >= 2
  /\ LineCount(file.data) >= 2

\* C4. Format invariant: after a successful run every line is exactly three
\* fields separated by single spaces, each a fixed-point decimal with exactly
\* four digits after the point, also for very small values.
C4_FormatInvariant ==
  Succeeded =>
    /\ Terminated(file.data)
    /\ \A l \in 1..Len(FileLines(file.data)) :
         LET fs == Fields(FileLines(file.data)[l])
         IN  /\ Len(fs) = 3
             /\ \A k \in 1..3 : IsFixed(fs[k]) /\ Len(fs[k]) - FirstIndex(fs[k], ".") = 4

\* The first coordinate written is the smallest nonzero sample times
\* MAX_COORDINATE, about 1.1e-11.
C4_Witness ==
  /\ Succeeded
  /\ num_points >= 1
  /\ stream[0] = << 0, 1 >>
  /\ Fields(FileLines(file.data)[1])[1] = << "0", ".", "0", "0", "0", "0" >>

\* C5. An I/O failure is never reported as success: a run that cannot open
\* the file, or whose write fails part-way, ends with the I/O error, exit
\* status 1 and nothing printed; a run that ends leaving a file other than
\* the complete point set did not succeed.
C5_FailureNotSuccess ==
  /\ error # NoError =>
       pc = "exited" /\ exit_status = 1 /\ error \in IOErrors /\ stdout = << >>
  /\ CannotOpen => exit_status # 0 /\ stdout = << >>
  /\ pc = "exited" /\ CannotOpen => error \in {"FileNotFoundError", "PermissionError"}
  /\ pc = "exited" /\ (~file.exists \/ file.data # Serialize(points)) =>
       exit_status = 1 /\ error \in IOErrors /\ stdout = << >>

\* A write failed after the first row: a partial file is on disk.
C5_Witness ==
  /\ pc = "exited"
  /\ error = "OSError"
  /\ file.data # << >>
  /\ file.data # Serialize(points)

C6_Completed ==
  /\ Succeeded =>
       /\ stdout = << [count |-> num_points, text |-> "points are written to",
                       path |-> FILE_PATH] >>
       /\ file.exists /\ ~fh /\ file.data = Serialize(points)
       /\ Len(points) = num_points
  /\ pc = "exited" /\ error = NoError => exit_status = 0
  /\ pc # "exited" => stdout = << >>

C6_PrintsLast ==
  stdout' # stdout /\ stdout' # << >> =>
    /\ pc = "print" /\ ~fh
    /\ file.exists /\ file.data = Serialize(points)
    /\ file' = file
    /\ pc' = "exited" /\ exit_status' = 0

\* C6. On normal completion exactly one line is printed, carrying the point
\* count and the path; it is printed only once the file is completely
\* written and closed, and the exit status is 0.
C6_Confirmation == [] C6_Completed /\ [][C6_PrintsLast]_vars

C6_Witness ==
  /\ Succeeded
  /\ num_points >= 1
  /\ Len(stdout) = 1

\* C7. With NUM_POINTS = 0, a run whose file can be opened succeeds, leaves a
\* file that exists and has zero lines (also when a file was there before),
\* and prints the confirmation with count 0.
C7_EmptyPointSet ==
  num_points = 0 /\ pc = "exited" /\ ~CannotOpen =>
    /\ exit_status = 0 /\ error = NoError
    /\ file.exists /\ file.data = << >> /\ LineCount(file.data) = 0
    /\ stdout = << [count |-> 0, text |-> "points are written to", path |-> FILE_PATH] >>

\* A first run with no points succeeded in a read-only directory: the file
\* was there before the run, and is empty now.
C7_Witness ==
  /\ num_points = 0
  /\ Succeeded
  /\ runs = 1
  /\ dir = "readonly"
  /\ file.exists /\ file.data = << >>

\* C8. Generation order is preserved: after a successful run exactly
\* 3 * NUM_POINTS samples were drawn, and line i of the file (from 0) is the
\* formatting of (u[3i] * M, u[3i+1] * M, u[3i+2] * M), u the samples in draw
\* order: nothing is sorted, deduplicated, dropped or reordered.
C8_OrderPreserved ==
  Succeeded =>
    /\ rng.drawn = 3 * num_points
    /\ Len(FileLines(file.data)) = num_points
    /\ \A i \in 0..(num_points - 1) :
         FileLines(file.data)[i + 1] \o << NL >> =
           FormatFixed(FMul(random_sample(Draw(3 * i)), MAX_COORDINATE)) \o << SP >>
             \o FormatFixed(FMul(random_sample(Draw(3 * i + 1)), MAX_COORDINATE)) \o << SP >>
             \o FormatFixed(FMul(random_sample(Draw(3 * i + 2)), MAX_COORDINATE)) \o << NL >>

\* Two rows that differ, of coordinates that differ.
C8_Witness ==
  /\ Succeeded
  /\ num_points >= 2
  /\ FileLines(file.data)[1] # FileLines(file.data)[2]
  /\ Draw(0) # Draw(1)
  /\ Draw(1) # Draw(2)

C9_Terminates == (pc # "exited") ~> (pc = "exited")

C9_GenerateThenWrite ==
  file' # file =>
    /\ pc \in {"savetxt", "write"}
    /\ rng.drawn = 3 * num_points
    /\ Len(points) = num_points

C9_Sequential ==
  pc = "write" /\ file' # file =>
    /\ LineCount(file.data) < Len(points)
    /\ file'.data = file.data \o FormatRow(points[LineCount(file.data) + 1])

C9_NotMutated ==
  pc \in {"savetxt", "write", "print"} => points' = points

\* C9. Single pass: every run terminates, in success or in an I/O error; the
\* file is touched only once all 3 * NUM_POINTS samples are generated; rows
\* are appended in index order; the point set does not change from the
\* start of the write on.
C9_SinglePass ==
  /\ C9_Terminates
  /\ [][C9_GenerateThenWrite]_vars
  /\ [][C9_Sequential]_vars
  /\ [][C9_NotMutated]_vars

\* A run of two differing rows that were both written.
C9_Witness ==
  /\ pc = "print"
  /\ Len(points) >= 2
  /\ points[1] # points[2]
  /\ LineCount(file.data) = Len(points)

\* C10. Overwrite, not append: of two consecutive successful runs the second
\* leaves the file exactly as the first left it, with NUM_POINTS lines.
C10_Overwrite ==
  \A i \in 1..(Len(history) - 1) :
    history[i].ok /\ history[i + 1].ok =>
      /\ history[i + 1].data = history[i].data
      /\ LineCount(history[i + 1].data) = num_points

C10_Witness ==
  /\ Len(history) >= 2
  /\ history[1].ok /\ history[2].ok
  /\ num_points >= 2
  /\ Succeeded
  /\ LineCount(file.data) = num_points
====
